---- MODULE Spec2Model ----
(***************************************************************************)
(* Model of types/module.go: the ModuleBasicManager (an ordered list of    *)
(* AppModuleBasic) and the ModuleManager (a name -> AppModule map plus     *)
(* four name orderings) with its setters, registration calls and the four  *)
(* lifecycle calls.                                                        *)
(*                                                                         *)
(* A call is one action.  What a call did is left in the variables op,     *)
(* args, calls, ret and status: the method, its arguments, the sequence of *)
(* calls it made on modules and routers, its return value, and whether it  *)
(* returned ("ok") or panicked on a nil map entry ("panic").               *)
(***************************************************************************)
EXTENDS Integers, Sequences, FiniteSets, TLC

VARIABLES
    L,       \* the module list the application passed to both constructors
    mbm,     \* ModuleBasicManager: []AppModuleBasic
    mm,      \* *ModuleManager: Modules and the four Order* fields
    op,      \* the method called last
    args,    \* its arguments
    calls,   \* the calls it made on modules and routers, in order
    ret,     \* its return value
    status   \* "ok": it returned;  "panic": it panicked

vars == <<L, mbm, mm, op, args, calls, ret, status>>

(***************************************************************************)
(* Bounds                                                                  *)
(***************************************************************************)
MaxOrderLen == 2      \* longest name sequence passed to a setter
MaxOverridden == 1    \* orderings that differ from the registration order at a time

(***************************************************************************)
(* Go values                                                               *)
(***************************************************************************)
\* the nil json.RawMessage / nil error
Nil == "nil"

\* a []abci.ValidatorUpdate: the nil slice, or a slice with elements
NilSlice == [isNil |-> TRUE, elems |-> <<>>]
Slice(s) == [isNil |-> FALSE, elems |-> s]
len(s) == Len(s.elems)

\* lookup in a Go map: the zero value when the key is absent
MapGet(m, k, zero) == IF k \in DOMAIN m THEN m[k] ELSE zero
MapPut(m, k, v) == [x \in DOMAIN m \cup {k} |-> IF x = k THEN v ELSE m[x]]
EmptyMap == [x \in {} |-> Nil]

RECURSIVE SeqsUpTo(_, _)
SeqsUpTo(S, n) ==
    IF n = 0 THEN {<<>>}
    ELSE LET shorter == SeqsUpTo(S, n - 1)
         IN  shorter \cup {Append(s, x) : s \in shorter, x \in S}

Range(s) == {s[i] : i \in 1..Len(s)}

(***************************************************************************)
(* The modules of the application: implementations of AppModule.  Modules  *)
(* 1 and 3 carry the same name.  What a hook returns depends on the module *)
(* and on the state behind the Context it is given: the one state of chain *)
(* start for InitGenesis, the state of some block for the other hooks.     *)
(***************************************************************************)
ModuleIds == {1, 2, 3}
Names == {"a", "b"}
GenesisContexts == {"c0"}
Contexts == {"c1", "c2"}

Name(m) == CASE m = 1 -> "a" [] m = 2 -> "b" [] m = 3 -> "a"

Route(m) == CASE m = 1 -> "ra" [] m = 2 -> "" [] m = 3 -> "rc"
NewHandler(m) == <<"Handler", m>>
QuerierRoute(m) == CASE m = 1 -> "" [] m = 2 -> "qb" [] m = 3 -> "qc"
NewQuerierHandler(m) == <<"Querier", m>>

ModDefaultGenesis(m) == CASE m = 1 -> "p" [] m = 2 -> "q" [] m = 3 -> "q"

ModValidateGenesis(m, data) ==
    CASE m = 1 -> IF data = Nil THEN "errA" ELSE Nil
      [] m = 2 -> IF data = "p" THEN "errB" ELSE Nil
      [] m = 3 -> IF data = "p" THEN "errC" ELSE Nil

ModInitGenesis(m, ctx, data) ==
    CASE m = 1 -> Slice(<<"v1">>)
      [] m = 2 -> Slice(<<"v2", "v1">>)
      [] m = 3 -> Slice(<<>>)

ModExportGenesis(m, ctx) ==
    CASE m = 1 -> IF ctx = "c1" THEN "p" ELSE "q"
      [] m = 2 -> IF ctx = "c1" THEN "q" ELSE Nil
      [] m = 3 -> "p"

Tag(k, v) == [Key |-> k, Value |-> v]

ModBeginBlock(m, ctx) ==
    CASE m = 1 -> IF ctx = "c1" THEN <<Tag("k", "1")>>
                                ELSE <<Tag("k", "1"), Tag("j", "2")>>
      [] m = 2 -> IF ctx = "c1" THEN <<Tag("k", "1")>> ELSE <<Tag("k", "2")>>
      [] m = 3 -> IF ctx = "c1" THEN <<>> ELSE <<Tag("k", "1")>>

ModEndBlock(m, ctx) ==
    CASE m = 1 -> IF ctx = "c1"
                  THEN [updates |-> Slice(<<"v1">>), tags |-> <<Tag("e", "1")>>]
                  ELSE [updates |-> Slice(<<"v1", "v2">>), tags |-> <<>>]
      [] m = 2 -> IF ctx = "c1"
                  THEN [updates |-> NilSlice, tags |-> <<Tag("e", "1")>>]
                  ELSE [updates |-> Slice(<<"v2">>),
                        tags |-> <<Tag("e", "2"), Tag("e", "1")>>]
      [] m = 3 -> IF ctx = "c1"
                  THEN [updates |-> Slice(<<"v3">>), tags |-> <<Tag("f", "3")>>]
                  ELSE [updates |-> Slice(<<>>), tags |-> <<Tag("e", "1")>>]

\* the genesis maps handed to InitGenesis and ValidateGenesis
GenesisMaps ==
    UNION {[S -> {"p", Nil}] : S \in SUBSET Names}

\* the module lists handed to the constructors: each module at most once
ModuleLists ==
    {s \in SeqsUpTo(ModuleIds, Cardinality(ModuleIds)) : Cardinality(Range(s)) = Len(s)}

\* the name sequences handed to the setters
OrderInputs == SeqsUpTo(Names, MaxOrderLen)

(***************************************************************************)
(* Constructors                                                            *)
(***************************************************************************)
NewModuleBasicManager(modules) == modules

\* one pass of the constructor's loop: moduleMap[name] = module, append name
RECURSIVE NewModuleMap(_)
NewModuleMap(modules) ==
    IF modules = <<>> THEN EmptyMap
    ELSE LET n == Len(modules)
         IN  MapPut(NewModuleMap(SubSeq(modules, 1, n - 1)),
                    Name(modules[n]), modules[n])

ModulesStr(modules) == [i \in 1..Len(modules) |-> Name(modules[i])]

\* as NewModuleManager, but the export ordering is built back to front
NewModuleManagerReversedExport(modules) ==
    [Modules            |-> NewModuleMap(modules),
     OrderInitGenesis   |-> ModulesStr(modules),
     OrderExportGenesis |-> [i \in 1..Len(modules) |-> Name(modules[Len(modules) + 1 - i])],
     OrderBeginBlockers |-> ModulesStr(modules),
     OrderEndBlockers   |-> ModulesStr(modules)]

\* as NewModuleManager, but a name keeps the first module registered under it
NewModuleManagerFirstWins(modules) ==
    [Modules            |-> [n \in Range(ModulesStr(modules)) |->
                                modules[CHOOSE i \in 1..Len(modules) :
                                            /\ Name(modules[i]) = n
                                            /\ \A j \in 1..(i - 1) : Name(modules[j]) # n]],
     OrderInitGenesis   |-> ModulesStr(modules),
     OrderExportGenesis |-> ModulesStr(modules),
     OrderBeginBlockers |-> ModulesStr(modules),
     OrderEndBlockers   |-> ModulesStr(modules)]

NewModuleManager(modules) ==
    [Modules            |-> NewModuleMap(modules),
     OrderInitGenesis   |-> ModulesStr(modules),
     OrderExportGenesis |-> ModulesStr(modules),
     OrderBeginBlockers |-> ModulesStr(modules),
     OrderEndBlockers   |-> ModulesStr(modules)]

Init ==
    /\ L \in ModuleLists
    /\ mbm = NewModuleBasicManager(L)
    /\ mm = NewModuleManager(L)
    /\ op = "NewModuleManager"
    /\ args = L
    /\ calls = <<>>
    /\ ret = [none |-> TRUE]
    /\ status = "ok"

(***************************************************************************)
(* Ordering setters                                                        *)
(***************************************************************************)
OrderInitGenesisSet(m, moduleNames) == [m EXCEPT !.OrderInitGenesis = moduleNames]
OrderExportGenesisSet(m, moduleNames) == [m EXCEPT !.OrderExportGenesis = moduleNames]
\* as OrderBeginBlockersSet, but the end-block ordering is assigned as well
OrderBeginBlockersSetBoth(m, moduleNames) ==
    [m EXCEPT !.OrderBeginBlockers = moduleNames, !.OrderEndBlockers = moduleNames]

OrderBeginBlockersSet(m, moduleNames) == [m EXCEPT !.OrderBeginBlockers = moduleNames]
OrderEndBlockersSet(m, moduleNames) == [m EXCEPT !.OrderEndBlockers = moduleNames]

\* a setter calls nothing and returns nothing
SetterReturns ==
    /\ calls' = <<>>
    /\ ret' = [none |-> TRUE]
    /\ status' = "ok"
    /\ UNCHANGED <<L, mbm>>

SetOrderInitGenesis ==
    \E moduleNames \in OrderInputs :
        /\ mm' = OrderInitGenesisSet(mm, moduleNames)
        /\ op' = "SetOrderInitGenesis"
        /\ args' = moduleNames
        /\ SetterReturns

SetOrderExportGenesis ==
    \E moduleNames \in OrderInputs :
        /\ mm' = OrderExportGenesisSet(mm, moduleNames)
        /\ op' = "SetOrderExportGenesis"
        /\ args' = moduleNames
        /\ SetterReturns

SetOrderBeginBlockers ==
    \E moduleNames \in OrderInputs :
        /\ mm' = OrderBeginBlockersSet(mm, moduleNames)
        /\ op' = "SetOrderBeginBlockers"
        /\ args' = moduleNames
        /\ SetterReturns

SetOrderEndBlockers ==
    \E moduleNames \in OrderInputs :
        /\ mm' = OrderEndBlockersSet(mm, moduleNames)
        /\ op' = "SetOrderEndBlockers"
        /\ args' = moduleNames
        /\ SetterReturns

(***************************************************************************)
(* Calls a manager method makes, as logged in calls                        *)
(***************************************************************************)
ModuleCall(module, method, arg) == [on |-> <<"module", module>>, method |-> method, arg |-> arg]
RouterCall(router, route, handler) ==
    [on |-> <<router, 0>>, method |-> "AddRoute", arg |-> <<route, handler>>]

\* the end of a method call that made the calls of st: it returns r, or it
\* panicked and returns nothing
Finish(st, r) ==
    /\ calls' = st.calls
    /\ status' = st.status
    /\ ret' = IF st.status = "ok" THEN r ELSE [none |-> TRUE]
    /\ UNCHANGED <<L, mbm, mm>>

(***************************************************************************)
(* Event tags (types/tags.go)                                              *)
(***************************************************************************)
EmptyTags == <<>>
AppendTags(t, tags) == t \o tags
ToKVPairs(t) == [i \in 1..Len(t) |-> [Key |-> t[i].Key, Value |-> t[i].Value]]

(***************************************************************************)
(* ModuleBasicManager                                                      *)
(***************************************************************************)
\* as DefaultGenesisStep, but an entry that is already there is kept
DefaultGenesisStepKeepFirst(mb, st) ==
    [genesis |-> IF Name(mb) \in DOMAIN st.genesis THEN st.genesis
                 ELSE MapPut(st.genesis, Name(mb), ModDefaultGenesis(mb)),
     calls   |-> Append(st.calls, ModuleCall(mb, "DefaultGenesis", <<>>)),
     status  |-> "ok"]

\* the body of DefaultGenesis's loop for the module mb
DefaultGenesisStep(mb, st) ==
    [genesis |-> MapPut(st.genesis, Name(mb), ModDefaultGenesis(mb)),
     calls   |-> Append(st.calls, ModuleCall(mb, "DefaultGenesis", <<>>)),
     status  |-> "ok"]

RECURSIVE DefaultGenesisLoop(_, _, _)
DefaultGenesisLoop(b, i, st) ==
    IF i > Len(b) THEN st
    ELSE DefaultGenesisLoop(b, i + 1, DefaultGenesisStep(b[i], st))

DefaultGenesis ==
    LET st == DefaultGenesisLoop(mbm, 1, [genesis |-> EmptyMap, calls |-> <<>>, status |-> "ok"])
    IN  /\ op' = "DefaultGenesis"
            /\ args' = <<>>
            /\ Finish(st, [genesis |-> st.genesis])

\* as ValidateGenesisStep, but a module with no entry is handed its default
\* genesis
ValidateGenesisStepDefault(mb, genesis, st) ==
    LET data == MapGet(genesis, Name(mb), ModDefaultGenesis(mb))
    IN  [err    |-> ModValidateGenesis(mb, data),
         calls  |-> Append(st.calls, ModuleCall(mb, "ValidateGenesis", <<data>>)),
         status |-> "ok"]

\* the body of ValidateGenesis's loop for the module mb; err # Nil returns
ValidateGenesisStep(mb, genesis, st) ==
    LET data == MapGet(genesis, Name(mb), Nil)
    IN  [err    |-> ModValidateGenesis(mb, data),
         calls  |-> Append(st.calls, ModuleCall(mb, "ValidateGenesis", <<data>>)),
         status |-> "ok"]

\* as ValidateGenesisReturns, but the loop never returns early
ValidateGenesisNeverReturns(err) == FALSE

\* if err != nil { return err }
ValidateGenesisReturns(err) == err # Nil

RECURSIVE ValidateGenesisLoop(_, _, _, _)
ValidateGenesisLoop(b, genesis, i, st) ==
    IF i > Len(b) \/ ValidateGenesisReturns(st.err) THEN st
    ELSE ValidateGenesisLoop(b, genesis, i + 1, ValidateGenesisStep(b[i], genesis, st))

ValidateGenesis ==
    \E genesis \in GenesisMaps :
        LET st == ValidateGenesisLoop(mbm, genesis, 1,
                                      [err |-> Nil, calls |-> <<>>, status |-> "ok"])
        IN  /\ op' = "ValidateGenesis"
            /\ args' = <<genesis>>
            /\ Finish(st, [err |-> st.err])

(***************************************************************************)
(* ModuleManager: registration.  Go iterates mm.Modules in an order that   *)
(* is not specified: keys is any arrangement of the map's keys.            *)
(***************************************************************************)
KeyOrders(m) ==
    {s \in SeqsUpTo(DOMAIN m, Cardinality(DOMAIN m)) :
        Len(s) = Cardinality(DOMAIN m) /\ Range(s) = DOMAIN m}

RegisterInvariantsStep(module, st) ==
    [calls  |-> Append(st.calls, ModuleCall(module, "RegisterInvariants", <<"invarRouter">>)),
     status |-> "ok"]

RECURSIVE RegisterInvariantsLoop(_, _, _, _)
RegisterInvariantsLoop(m, keys, i, st) ==
    IF i > Len(keys) THEN st
    ELSE RegisterInvariantsLoop(m, keys, i + 1, RegisterInvariantsStep(m.Modules[keys[i]], st))

RegisterInvariants ==
    \E keys \in KeyOrders(mm.Modules) :
        LET st == RegisterInvariantsLoop(mm, keys, 1, [calls |-> <<>>, status |-> "ok"])
        IN  /\ op' = "RegisterInvariants"
            /\ args' = <<keys>>
            /\ Finish(st, [none |-> TRUE])

\* the two ifs of RegisterRoutes's loop body
\* as AddTxRoute, but without the test of Route()
AddTxRouteAlways(module, cs) ==
    Append(cs, RouterCall("router", Route(module), NewHandler(module)))

AddTxRoute(module, cs) ==
    IF Route(module) # ""
    THEN Append(cs, RouterCall("router", Route(module), NewHandler(module)))
    ELSE cs

AddQueryRoute(module, cs) ==
    IF QuerierRoute(module) # ""
    THEN Append(cs, RouterCall("queryRouter", QuerierRoute(module), NewQuerierHandler(module)))
    ELSE cs

\* as RegisterRoutesStep, but only the module iterated first gets a querier route
RegisterRoutesStepFirstQuerier(module, st) ==
    [calls  |-> IF st.calls = <<>>
                THEN AddQueryRoute(module, AddTxRoute(module, st.calls))
                ELSE AddTxRoute(module, st.calls),
     status |-> "ok"]

RegisterRoutesStep(module, st) ==
    [calls  |-> AddQueryRoute(module, AddTxRoute(module, st.calls)),
     status |-> "ok"]

RECURSIVE RegisterRoutesLoop(_, _, _, _)
RegisterRoutesLoop(m, keys, i, st) ==
    IF i > Len(keys) THEN st
    ELSE RegisterRoutesLoop(m, keys, i + 1, RegisterRoutesStep(m.Modules[keys[i]], st))

RegisterRoutes ==
    \E keys \in KeyOrders(mm.Modules) :
        LET st == RegisterRoutesLoop(mm, keys, 1, [calls |-> <<>>, status |-> "ok"])
        IN  /\ op' = "RegisterRoutes"
            /\ args' = <<keys>>
            /\ Finish(st, [none |-> TRUE])

(***************************************************************************)
(* ModuleManager: lifecycle calls.  mm.Modules[moduleName] of a name that  *)
(* is not a key is the nil AppModule, and calling a method on it panics.   *)
(***************************************************************************)
\* as InitGenesisUpdates, but the first non-empty list is kept
InitGenesisUpdatesFirst(moduleValUpdates, validatorUpdates) ==
    IF len(validatorUpdates) > 0 THEN validatorUpdates ELSE moduleValUpdates

\* InitGenesis: if len(moduleValUpdates) > 0 { validatorUpdates = moduleValUpdates }
InitGenesisUpdates(moduleValUpdates, validatorUpdates) ==
    IF len(moduleValUpdates) > 0 THEN moduleValUpdates ELSE validatorUpdates

\* as SkipInitGenesis, but only a name with no entry is skipped
SkipInitGenesisAbsent(genesisData, moduleName) == moduleName \notin DOMAIN genesisData

\* if genesisData[moduleName] == nil { continue }
SkipInitGenesis(genesisData, moduleName) == MapGet(genesisData, moduleName, Nil) = Nil

\* as InitGenesisStep, but the module is handed its default genesis
InitGenesisStepDefault(m, ctx, genesisData, moduleName, st) ==
    IF SkipInitGenesis(genesisData, moduleName) THEN st
    ELSE IF moduleName \notin DOMAIN m.Modules THEN [st EXCEPT !.status = "panic"]
    ELSE LET module == m.Modules[moduleName]
             data == ModDefaultGenesis(module)
             moduleValUpdates == ModInitGenesis(module, ctx, data)
         IN  [validatorUpdates |-> InitGenesisUpdates(moduleValUpdates, st.validatorUpdates),
              calls  |-> Append(st.calls, ModuleCall(module, "InitGenesis", <<ctx, data>>)),
              status |-> "ok"]

InitGenesisStep(m, ctx, genesisData, moduleName, st) ==
    IF SkipInitGenesis(genesisData, moduleName) THEN st
    ELSE IF moduleName \notin DOMAIN m.Modules THEN [st EXCEPT !.status = "panic"]
    ELSE LET module == m.Modules[moduleName]
             data == MapGet(genesisData, moduleName, Nil)
             moduleValUpdates == ModInitGenesis(module, ctx, data)
         IN  [validatorUpdates |-> InitGenesisUpdates(moduleValUpdates, st.validatorUpdates),
              calls  |-> Append(st.calls, ModuleCall(module, "InitGenesis", <<ctx, data>>)),
              status |-> "ok"]

RECURSIVE InitGenesisLoop(_, _, _, _, _)
InitGenesisLoop(m, ctx, genesisData, i, st) ==
    IF i > Len(m.OrderInitGenesis) \/ st.status = "panic" THEN st
    ELSE InitGenesisLoop(m, ctx, genesisData, i + 1,
                         InitGenesisStep(m, ctx, genesisData, m.OrderInitGenesis[i], st))

\* as InitGenesis, but refused right after an InitGenesis
InitGenesisOnce ==
    \E ctx \in GenesisContexts, genesisData \in GenesisMaps :
        LET st == InitGenesisLoop(mm, ctx, genesisData, 1,
                     [validatorUpdates |-> NilSlice, calls |-> <<>>, status |-> "ok"])
        IN  /\ op # "InitGenesis"
            /\ op' = "InitGenesis"
            /\ args' = <<ctx, genesisData>>
            /\ Finish(st, [Validators |-> st.validatorUpdates])

\* as InitGenesis, but the ordering is cleared once it has been used
InitGenesisConsumesOrder ==
    \E ctx \in GenesisContexts, genesisData \in GenesisMaps :
        LET st == InitGenesisLoop(mm, ctx, genesisData, 1,
                     [validatorUpdates |-> NilSlice, calls |-> <<>>, status |-> "ok"])
        IN  /\ op' = "InitGenesis"
            /\ args' = <<ctx, genesisData>>
            /\ calls' = st.calls
            /\ status' = st.status
            /\ ret' = IF st.status = "ok" THEN [Validators |-> st.validatorUpdates]
                                          ELSE [none |-> TRUE]
            /\ mm' = [mm EXCEPT !.OrderInitGenesis = <<>>]
            /\ UNCHANGED <<L, mbm>>

InitGenesis ==
    \E ctx \in GenesisContexts, genesisData \in GenesisMaps :
        LET st == InitGenesisLoop(mm, ctx, genesisData, 1,
                     [validatorUpdates |-> NilSlice, calls |-> <<>>, status |-> "ok"])
        IN  /\ op' = "InitGenesis"
            /\ args' = <<ctx, genesisData>>
            /\ Finish(st, [Validators |-> st.validatorUpdates])

\* InitGenesis, called with the map the ExportGenesis before it returned
InitGenesisOfExport ==
    \E ctx \in GenesisContexts :
        LET genesisData == ret.genesisData
            st == InitGenesisLoop(mm, ctx, genesisData, 1,
                     [validatorUpdates |-> NilSlice, calls |-> <<>>, status |-> "ok"])
        IN  /\ op = "ExportGenesis"
            /\ status = "ok"
            /\ op' = "InitGenesis"
            /\ args' = <<ctx, genesisData>>
            /\ Finish(st, [Validators |-> st.validatorUpdates])

\* as ExportGenesisStep, but a module that exports nil is left out of the map
ExportGenesisStepSkipNil(m, ctx, moduleName, st) ==
    IF moduleName \notin DOMAIN m.Modules THEN [st EXCEPT !.status = "panic"]
    ELSE LET module == m.Modules[moduleName]
             data == ModExportGenesis(module, ctx)
         IN  [genesisData |-> IF data = Nil THEN st.genesisData
                              ELSE MapPut(st.genesisData, moduleName, data),
              calls  |-> Append(st.calls, ModuleCall(module, "ExportGenesis", <<ctx>>)),
              status |-> "ok"]

\* as ExportGenesisStep, but a name that was exported already is passed over
ExportGenesisStepOnce(m, ctx, moduleName, st) ==
    IF moduleName \notin DOMAIN m.Modules THEN [st EXCEPT !.status = "panic"]
    ELSE IF moduleName \in DOMAIN st.genesisData THEN st
    ELSE LET module == m.Modules[moduleName]
         IN  [genesisData |-> MapPut(st.genesisData, moduleName, ModExportGenesis(module, ctx)),
              calls  |-> Append(st.calls, ModuleCall(module, "ExportGenesis", <<ctx>>)),
              status |-> "ok"]

ExportGenesisStep(m, ctx, moduleName, st) ==
    IF moduleName \notin DOMAIN m.Modules THEN [st EXCEPT !.status = "panic"]
    ELSE LET module == m.Modules[moduleName]
         IN  [genesisData |-> MapPut(st.genesisData, moduleName, ModExportGenesis(module, ctx)),
              calls  |-> Append(st.calls, ModuleCall(module, "ExportGenesis", <<ctx>>)),
              status |-> "ok"]

RECURSIVE ExportGenesisLoop(_, _, _, _)
ExportGenesisLoop(m, ctx, i, st) ==
    IF i > Len(m.OrderExportGenesis) \/ st.status = "panic" THEN st
    ELSE ExportGenesisLoop(m, ctx, i + 1,
                           ExportGenesisStep(m, ctx, m.OrderExportGenesis[i], st))

ExportGenesis ==
    \E ctx \in Contexts :
        LET st == ExportGenesisLoop(mm, ctx, 1,
                     [genesisData |-> EmptyMap, calls |-> <<>>, status |-> "ok"])
        IN  /\ op' = "ExportGenesis"
            /\ args' = <<ctx>>
            /\ Finish(st, [genesisData |-> st.genesisData])

\* as BeginBlockStep, but a module's tags are put in front of the accumulator
BeginBlockStepPrepend(m, ctx, moduleName, st) ==
    IF moduleName \notin DOMAIN m.Modules THEN [st EXCEPT !.status = "panic"]
    ELSE LET module == m.Modules[moduleName]
             moduleTags == ModBeginBlock(module, ctx)
         IN  [tags   |-> AppendTags(moduleTags, st.tags),
              calls  |-> Append(st.calls, ModuleCall(module, "BeginBlock", <<ctx>>)),
              status |-> "ok"]

\* as BeginBlockStep, but a name that is not in the module map is passed over
BeginBlockStepSkipMissing(m, ctx, moduleName, st) ==
    IF moduleName \notin DOMAIN m.Modules THEN st
    ELSE LET module == m.Modules[moduleName]
             moduleTags == ModBeginBlock(module, ctx)
         IN  [tags   |-> AppendTags(st.tags, moduleTags),
              calls  |-> Append(st.calls, ModuleCall(module, "BeginBlock", <<ctx>>)),
              status |-> "ok"]

BeginBlockStep(m, ctx, moduleName, st) ==
    IF moduleName \notin DOMAIN m.Modules THEN [st EXCEPT !.status = "panic"]
    ELSE LET module == m.Modules[moduleName]
             moduleTags == ModBeginBlock(module, ctx)
         IN  [tags   |-> AppendTags(st.tags, moduleTags),
              calls  |-> Append(st.calls, ModuleCall(module, "BeginBlock", <<ctx>>)),
              status |-> "ok"]

RECURSIVE BeginBlockLoop(_, _, _, _)
BeginBlockLoop(m, ctx, i, st) ==
    IF i > Len(m.OrderBeginBlockers) \/ st.status = "panic" THEN st
    ELSE BeginBlockLoop(m, ctx, i + 1, BeginBlockStep(m, ctx, m.OrderBeginBlockers[i], st))

BeginBlock ==
    \E ctx \in Contexts :
        LET st == BeginBlockLoop(mm, ctx, 1,
                     [tags |-> EmptyTags, calls |-> <<>>, status |-> "ok"])
        IN  /\ op' = "BeginBlock"
            /\ args' = <<ctx>>
            /\ Finish(st, [Tags |-> ToKVPairs(st.tags)])

\* as EndBlockUpdates, but every module's list replaces the running one
EndBlockUpdatesAlways(moduleValUpdates, validatorUpdates) == moduleValUpdates

\* EndBlock: if len(moduleValUpdates) > 0 { validatorUpdates = moduleValUpdates }
EndBlockUpdates(moduleValUpdates, validatorUpdates) ==
    IF len(moduleValUpdates) > 0 THEN moduleValUpdates ELSE validatorUpdates

\* as EndBlockStep, but the module called is not looked up under moduleName
EndBlockStepAnyModule(m, ctx, moduleName, st) ==
    IF moduleName \notin DOMAIN m.Modules THEN [st EXCEPT !.status = "panic"]
    ELSE LET module == m.Modules[CHOOSE n \in DOMAIN m.Modules : TRUE]
             r == ModEndBlock(module, ctx)
         IN  [validatorUpdates |-> EndBlockUpdates(r.updates, st.validatorUpdates),
              tags   |-> AppendTags(st.tags, r.tags),
              calls  |-> Append(st.calls, ModuleCall(module, "EndBlock", <<ctx>>)),
              status |-> "ok"]

EndBlockStep(m, ctx, moduleName, st) ==
    IF moduleName \notin DOMAIN m.Modules THEN [st EXCEPT !.status = "panic"]
    ELSE LET module == m.Modules[moduleName]
             r == ModEndBlock(module, ctx)
         IN  [validatorUpdates |-> EndBlockUpdates(r.updates, st.validatorUpdates),
              tags   |-> AppendTags(st.tags, r.tags),
              calls  |-> Append(st.calls, ModuleCall(module, "EndBlock", <<ctx>>)),
              status |-> "ok"]

RECURSIVE EndBlockLoop(_, _, _, _)
EndBlockLoop(m, ctx, i, st) ==
    IF i > Len(m.OrderEndBlockers) \/ st.status = "panic" THEN st
    ELSE EndBlockLoop(m, ctx, i + 1, EndBlockStep(m, ctx, m.OrderEndBlockers[i], st))

EndBlock ==
    \E ctx \in Contexts :
        LET st == EndBlockLoop(mm, ctx, 1,
                     [validatorUpdates |-> Slice(<<>>), tags |-> EmptyTags,
                      calls |-> <<>>, status |-> "ok"])
        IN  /\ op' = "EndBlock"
            /\ args' = <<ctx>>
            /\ Finish(st, [ValidatorUpdates |-> st.validatorUpdates, Tags |-> st.tags])

(***************************************************************************)
(* Specifications                                                          *)
(***************************************************************************)
\* the number of orderings that differ from the registration order
Overridden(m) ==
    LET d == ModulesStr(L)
    IN  Cardinality({f \in {"OrderInitGenesis", "OrderExportGenesis",
                            "OrderBeginBlockers", "OrderEndBlockers"} : m[f] # d})

\* the ordering setters on their own, at most MaxOverridden orderings
\* overridden at a time
NextOrder ==
    \/ SetOrderInitGenesis /\ Overridden(mm') <= MaxOverridden
    \/ SetOrderExportGenesis /\ Overridden(mm') <= MaxOverridden
    \/ SetOrderBeginBlockers /\ Overridden(mm') <= MaxOverridden
    \/ SetOrderEndBlockers /\ Overridden(mm') <= MaxOverridden

SpecOrder == Init /\ [][NextOrder]_vars

\* genesis: InitGenesis and ExportGenesis under any two orderings
NextGenesis ==
    \/ SetOrderInitGenesis
    \/ SetOrderExportGenesis
    \/ InitGenesis
    \/ ExportGenesis

SpecGenesis == Init /\ [][NextGenesis]_vars

\* blocks: BeginBlock and EndBlock under any two orderings
NextBlock ==
    \/ SetOrderBeginBlockers
    \/ SetOrderEndBlockers
    \/ BeginBlock
    \/ EndBlock

SpecBlock == Init /\ [][NextBlock]_vars

\* startup: the basic manager and the registration calls
NextStartup ==
    \/ DefaultGenesis
    \/ ValidateGenesis
    \/ RegisterInvariants
    \/ RegisterRoutes

SpecStartup == Init /\ [][NextStartup]_vars

\* the four lifecycle calls under overridden orderings
NextLifecycle ==
    \/ NextOrder
    \/ InitGenesis
    \/ ExportGenesis
    \/ BeginBlock
    \/ EndBlock

SpecLifecycle == Init /\ [][NextLifecycle]_vars

\* the four lifecycle calls under the orderings of the constructor
NextRun ==
    \/ InitGenesis
    \/ ExportGenesis
    \/ BeginBlock
    \/ EndBlock

SpecRun == Init /\ [][NextRun]_vars

\* a checkpoint: ExportGenesis, and InitGenesis of what it returned
NextCheckpoint ==
    \/ SetOrderInitGenesis
    \/ SetOrderExportGenesis
    \/ ExportGenesis
    \/ InitGenesisOfExport

SpecCheckpoint == Init /\ [][NextCheckpoint]_vars

\* startup wiring: no registration or lifecycle call has been made yet
Wiring ==
    op \in {"NewModuleManager", "SetOrderInitGenesis", "SetOrderExportGenesis",
            "SetOrderBeginBlockers", "SetOrderEndBlockers"}

\* the manager as the application drives it: the orderings are set during
\* startup wiring, then come the registration calls and the lifecycle calls
NextManager ==
    \/ Wiring /\ SetOrderInitGenesis /\ Overridden(mm') <= MaxOverridden
    \/ Wiring /\ SetOrderExportGenesis /\ Overridden(mm') <= MaxOverridden
    \/ Wiring /\ SetOrderBeginBlockers /\ Overridden(mm') <= MaxOverridden
    \/ Wiring /\ SetOrderEndBlockers /\ Overridden(mm') <= MaxOverridden
    \/ RegisterInvariants
    \/ RegisterRoutes
    \/ InitGenesis
    \/ ExportGenesis
    \/ BeginBlock
    \/ EndBlock

SpecManager == Init /\ [][NextManager]_vars

\* the three calls that invoke a hook at every position of their ordering
NextHooks ==
    \/ SetOrderExportGenesis /\ Overridden(mm') <= MaxOverridden
    \/ SetOrderBeginBlockers /\ Overridden(mm') <= MaxOverridden
    \/ SetOrderEndBlockers /\ Overridden(mm') <= MaxOverridden
    \/ ExportGenesis
    \/ BeginBlock
    \/ EndBlock

SpecHooks == Init /\ [][NextHooks]_vars

\* every call
Next ==
    \/ NextLifecycle
    \/ NextStartup

Spec == Init /\ [][Next]_vars

(***************************************************************************)
(* Properties                                                              *)
(***************************************************************************)
OrderFields ==
    {"OrderInitGenesis", "OrderExportGenesis", "OrderBeginBlockers", "OrderEndBlockers"}

Min(S) == CHOOSE x \in S : \A y \in S : x <= y
Max(S) == CHOOSE x \in S : \A y \in S : y <= x

\* the modules called during the last method call, in call order
CalledModules == [i \in 1..Len(calls) |-> calls[i].on[2]]
Invoked(module) == \E i \in 1..Len(calls) : calls[i].on = <<"module", module>>

\* the positions of order that hold a name missing from the module map
Missing(order) == {i \in 1..Len(order) : order[i] \notin DOMAIN mm.Modules}

\* v is the last non-empty list of rets, or empty when rets has none
LastNonEmptyWins(v, rets) ==
    LET nonEmpty == {i \in 1..Len(rets) : len(rets[i]) > 0}
    IN  IF nonEmpty = {} THEN len(v) = 0 ELSE v = rets[Max(nonEmpty)]

RECURSIVE Flatten(_)
Flatten(ss) == IF ss = <<>> THEN <<>> ELSE Head(ss) \o Flatten(Tail(ss))

\* C1: right after NewModuleManager(L), each of the four orderings is the
\* sequence of the names of L in registration order.
C1_DefaultOrderings ==
    op = "NewModuleManager" =>
        \A f \in OrderFields :
            /\ Len(mm[f]) = Len(L)
            /\ \A i \in 1..Len(L) : mm[f][i] = Name(L[i])

C1_Witness ==
    /\ op = "NewModuleManager"
    /\ L = <<3, 2, 1>>
    /\ \A f \in OrderFields : mm[f] = <<"a", "b", "a">>

\* C2: each setter replaces its own ordering by the sequence it is given and
\* leaves the other three orderings and the module map as they were, whatever
\* setter calls came before.
C2_SettersIndependent ==
    [][/\ op' = "SetOrderInitGenesis" =>
            mm' = [Modules            |-> mm.Modules,
                   OrderInitGenesis   |-> args',
                   OrderExportGenesis |-> mm.OrderExportGenesis,
                   OrderBeginBlockers |-> mm.OrderBeginBlockers,
                   OrderEndBlockers   |-> mm.OrderEndBlockers]
       /\ op' = "SetOrderExportGenesis" =>
            mm' = [Modules            |-> mm.Modules,
                   OrderInitGenesis   |-> mm.OrderInitGenesis,
                   OrderExportGenesis |-> args',
                   OrderBeginBlockers |-> mm.OrderBeginBlockers,
                   OrderEndBlockers   |-> mm.OrderEndBlockers]
       /\ op' = "SetOrderBeginBlockers" =>
            mm' = [Modules            |-> mm.Modules,
                   OrderInitGenesis   |-> mm.OrderInitGenesis,
                   OrderExportGenesis |-> mm.OrderExportGenesis,
                   OrderBeginBlockers |-> args',
                   OrderEndBlockers   |-> mm.OrderEndBlockers]
       /\ op' = "SetOrderEndBlockers" =>
            mm' = [Modules            |-> mm.Modules,
                   OrderInitGenesis   |-> mm.OrderInitGenesis,
                   OrderExportGenesis |-> mm.OrderExportGenesis,
                   OrderBeginBlockers |-> mm.OrderBeginBlockers,
                   OrderEndBlockers   |-> args']]_vars

C2_Witness ==
    /\ op = "SetOrderBeginBlockers"
    /\ L = <<1, 2>>
    /\ mm.OrderBeginBlockers = <<"b", "a">>
    /\ mm.OrderEndBlockers = <<"a", "b">>
    /\ mm.OrderInitGenesis = <<"a", "b">>
    /\ mm.OrderExportGenesis = <<"a", "b">>

\* the genesis payload InitGenesis finds for position i of its ordering
InitPayload(i) == MapGet(args[2], mm.OrderInitGenesis[i], Nil)

\* the positions of OrderInitGenesis at which InitGenesis panics when it
\* gets there: a payload is there, the module is not
InitMissing == {i \in Missing(mm.OrderInitGenesis) : InitPayload(i) # Nil}

\* C3 as stated: in InitGenesis a module of the module map is invoked if and
\* only if its name is in OrderInitGenesis with a non-nil genesis payload,
\* and no module is handed a nil payload.
C3_InvokedIffListedWithPayload ==
    op = "InitGenesis" =>
        /\ \A n \in DOMAIN mm.Modules :
              Invoked(mm.Modules[n]) <=>
                  /\ n \in Range(mm.OrderInitGenesis)
                  /\ MapGet(args[2], n, Nil) # Nil
        /\ \A i \in 1..Len(calls) : calls[i].arg[2] # Nil

\* C3 amended: in InitGenesis a module of the module map is invoked if and
\* only if its name is in OrderInitGenesis with a non-nil genesis payload at
\* a position that no panicking position precedes; the modules are invoked
\* once per such position, in order, each with the payload of its own name,
\* and no module is handed a nil payload.
C3_InvokedIffListedWithPayloadReached ==
    op = "InitGenesis" =>
        LET order == mm.OrderInitGenesis
            end == IF InitMissing = {} THEN Len(order) ELSE Min(InitMissing) - 1
            reached == {i \in 1..end : InitPayload(i) # Nil}
        IN  /\ \A n \in DOMAIN mm.Modules :
                  Invoked(mm.Modules[n]) <=> \E i \in reached : order[i] = n
            /\ Len(calls) = Cardinality(reached)
            /\ \A i \in 1..Len(calls) :
                  /\ calls[i].method = "InitGenesis"
                  /\ calls[i].arg[2] # Nil
                  /\ \E j \in reached :
                        /\ calls[i].on = <<"module", mm.Modules[order[j]]>>
                        /\ calls[i].arg[2] = args[2][order[j]]
                        /\ Cardinality({k \in reached : k < j}) = i - 1
            /\ status = "ok" <=> InitMissing = {}

C3_Witness ==
    /\ op = "InitGenesis"
    /\ status = "ok"
    /\ L = <<1, 2>>
    /\ mm.OrderInitGenesis = <<"b", "a">>
    /\ args[2] = [n \in {"a"} |-> "p"]
    /\ CalledModules = <<1>>

\* C4: EndBlock returns the update list of the last module, in
\* OrderEndBlockers order, that returned a non-empty list, and the empty list
\* when no module returned a non-empty one.
C4_EndBlockLastNonEmpty ==
    (op = "EndBlock" /\ status = "ok") =>
        LET order == mm.OrderEndBlockers
            rets == [i \in 1..Len(order) |->
                        ModEndBlock(mm.Modules[order[i]], args[1]).updates]
        IN  LastNonEmptyWins(ret.ValidatorUpdates, rets)

C4_Witness ==
    /\ op = "EndBlock"
    /\ status = "ok"
    /\ L = <<1, 2>>
    /\ args = <<"c1">>
    /\ mm.OrderEndBlockers = <<"a", "b">>
    /\ CalledModules = <<1, 2>>
    /\ ret.ValidatorUpdates = Slice(<<"v1">>)

\* C5: InitGenesis returns the last non-empty update list returned by a
\* module it invoked, in OrderInitGenesis order, and an empty validator set
\* when no invoked module returned a non-empty list.
C5_InitGenesisLastNonEmpty ==
    (op = "InitGenesis" /\ status = "ok") =>
        LET order == mm.OrderInitGenesis
            called == {i \in 1..Len(order) : InitPayload(i) # Nil}
            nonEmpty == {i \in called :
                            len(ModInitGenesis(mm.Modules[order[i]], args[1],
                                               InitPayload(i))) > 0}
        IN  IF nonEmpty = {} THEN len(ret.Validators) = 0
            ELSE ret.Validators =
                     ModInitGenesis(mm.Modules[order[Max(nonEmpty)]], args[1],
                                    InitPayload(Max(nonEmpty)))

C5_Witness ==
    /\ op = "InitGenesis"
    /\ status = "ok"
    /\ L = <<1, 2, 3>>
    /\ mm.OrderInitGenesis = <<"a", "b", "a">>
    /\ CalledModules = <<3, 2, 3>>
    /\ ret.Validators = Slice(<<"v2", "v1">>)

\* C6: the tags BeginBlock returns, and the tags EndBlock returns, are the
\* tag sequences the modules returned, concatenated in the order of
\* OrderBeginBlockers and of OrderEndBlockers: nothing dropped, moved or
\* merged.
C6_TagsConcatenated ==
    /\ (op = "BeginBlock" /\ status = "ok") =>
          ret.Tags = Flatten([i \in 1..Len(mm.OrderBeginBlockers) |->
                        ModBeginBlock(mm.Modules[mm.OrderBeginBlockers[i]], args[1])])
    /\ (op = "EndBlock" /\ status = "ok") =>
          ret.Tags = Flatten([i \in 1..Len(mm.OrderEndBlockers) |->
                        ModEndBlock(mm.Modules[mm.OrderEndBlockers[i]], args[1]).tags])

C6_Witness ==
    /\ op = "BeginBlock"
    /\ status = "ok"
    /\ L = <<1, 2>>
    /\ args = <<"c2">>
    /\ mm.OrderBeginBlockers = <<"b", "a">>
    /\ ret.Tags = <<Tag("k", "2"), Tag("k", "1"), Tag("j", "2")>>

\* what the validator of the module at position i of mbm answers
ValidateAnswer(i) == ModValidateGenesis(mbm[i], MapGet(args[1], Name(mbm[i]), Nil))

\* C7: when the validator at position i is the first to report an error,
\* ValidateGenesis returns that error, has invoked the validators of the
\* positions up to i once each in registration order, and none after i.
C7_ValidateGenesisFailsFast ==
    op = "ValidateGenesis" =>
        LET failing == {i \in 1..Len(mbm) : ValidateAnswer(i) # Nil}
        IN  failing # {} =>
                /\ status = "ok"
                /\ ret.err = ValidateAnswer(Min(failing))
                /\ Len(calls) = Min(failing)
                /\ \A j \in 1..Len(calls) :
                      /\ calls[j].on = <<"module", mbm[j]>>
                      /\ calls[j].method = "ValidateGenesis"

C7_Witness ==
    /\ op = "ValidateGenesis"
    /\ L = <<1, 2, 3>>
    /\ args[1] = [n \in {"b"} |-> "p"]
    /\ ret.err = "errA"
    /\ CalledModules = <<1>>

\* the AddRoute calls on router that carry handler
Adds(router, handler) ==
    {i \in 1..Len(calls) : calls[i].on = <<router, 0>> /\ calls[i].arg[2] = handler}

\* C8: RegisterRoutes never adds a module of the module map whose Route() is
\* "" to the transaction router and adds one whose Route() is not "" exactly
\* once, under Route() with its own handler; QuerierRoute() gates the query
\* router in the same way, independently.
C8_RouteGating ==
    op = "RegisterRoutes" =>
        \A n \in DOMAIN mm.Modules :
            LET module == mm.Modules[n]
                tx == Adds("router", NewHandler(module))
                query == Adds("queryRouter", NewQuerierHandler(module))
            IN  /\ Route(module) = "" => tx = {}
                /\ Route(module) # "" =>
                      /\ Cardinality(tx) = 1
                      /\ \A i \in tx : calls[i].arg[1] = Route(module)
                /\ QuerierRoute(module) = "" => query = {}
                /\ QuerierRoute(module) # "" =>
                      /\ Cardinality(query) = 1
                      /\ \A i \in query : calls[i].arg[1] = QuerierRoute(module)

C8_Witness ==
    /\ op = "RegisterRoutes"
    /\ L = <<1, 2>>
    /\ args = <<(<<"b", "a">>)>>
    /\ calls = <<RouterCall("queryRouter", "qb", NewQuerierHandler(2)),
                 RouterCall("router", "ra", NewHandler(1))>>

\* the key set of the map ExportGenesis returned is the set of names of
\* OrderExportGenesis, each key mapped to what its module exported
ExportedAll ==
    /\ DOMAIN ret.genesisData = Range(mm.OrderExportGenesis)
    /\ \A n \in DOMAIN ret.genesisData :
          ret.genesisData[n] = ModExportGenesis(mm.Modules[n], args[1])

\* C9 as stated: ExportGenesis invokes every module named in
\* OrderExportGenesis, and the map it returns has the names of
\* OrderExportGenesis as keys, each mapped to what its module exported.
C9_ExportsEveryListedModule ==
    op = "ExportGenesis" =>
        /\ \A n \in Range(mm.OrderExportGenesis) \cap DOMAIN mm.Modules :
              Invoked(mm.Modules[n])
        /\ status = "ok" => ExportedAll

\* C9 amended: ExportGenesis invokes the modules named in OrderExportGenesis
\* position by position, skipping none, up to the first name that is not in
\* the module map; when every name is in the module map it invokes them all
\* and returns the map described in C9.
C9_ExportsEveryListedModuleReached ==
    op = "ExportGenesis" =>
        LET order == mm.OrderExportGenesis
            end == IF Missing(order) = {} THEN Len(order) ELSE Min(Missing(order)) - 1
        IN  /\ CalledModules = [i \in 1..end |-> mm.Modules[order[i]]]
            /\ \A i \in 1..Len(calls) : calls[i].method = "ExportGenesis"
            /\ Missing(order) = {} => (status = "ok" /\ ExportedAll)

C9_Witness ==
    /\ op = "ExportGenesis"
    /\ status = "ok"
    /\ L = <<1, 2>>
    /\ args = <<"c2">>
    /\ mm.OrderExportGenesis = <<"b", "a">>
    /\ CalledModules = <<2, 1>>
    /\ ret.genesisData = [n \in {"a", "b"} |-> IF n = "a" THEN "q" ELSE Nil]

\* C10 as stated: each of the four lifecycle calls panics when its ordering
\* holds a name that is not a key of the module map.
C10_MissingNamePanics ==
    /\ (op = "InitGenesis" /\ Missing(mm.OrderInitGenesis) # {}) => status = "panic"
    /\ (op = "ExportGenesis" /\ Missing(mm.OrderExportGenesis) # {}) => status = "panic"
    /\ (op = "BeginBlock" /\ Missing(mm.OrderBeginBlockers) # {}) => status = "panic"
    /\ (op = "EndBlock" /\ Missing(mm.OrderEndBlockers) # {}) => status = "panic"

\* C10 amended: ExportGenesis, BeginBlock and EndBlock panic exactly when
\* their ordering holds a name that is not a key of the module map;
\* InitGenesis panics exactly when its ordering holds such a name and the
\* genesis map holds a non-nil payload for it.
C10_MissingNamePanicsUnlessSkipped ==
    /\ op = "InitGenesis" => (status = "panic" <=> InitMissing # {})
    /\ op = "ExportGenesis" => (status = "panic" <=> Missing(mm.OrderExportGenesis) # {})
    /\ op = "BeginBlock" => (status = "panic" <=> Missing(mm.OrderBeginBlockers) # {})
    /\ op = "EndBlock" => (status = "panic" <=> Missing(mm.OrderEndBlockers) # {})

C10_Witness ==
    /\ op = "InitGenesis"
    /\ status = "ok"
    /\ L = <<1>>
    /\ mm.OrderInitGenesis = <<"b", "a">>
    /\ args[2] = [n \in {"a", "b"} |-> IF n = "a" THEN "p" ELSE Nil]
    /\ CalledModules = <<1>>

LifecycleOps == {"InitGenesis", "ExportGenesis", "BeginBlock", "EndBlock"}

\* the ordering the lifecycle call o iterates
OrderOf(o) ==
    CASE o = "InitGenesis"   -> mm.OrderInitGenesis
      [] o = "ExportGenesis" -> mm.OrderExportGenesis
      [] o = "BeginBlock"    -> mm.OrderBeginBlockers
      [] o = "EndBlock"      -> mm.OrderEndBlockers

\* the positions of its ordering at which the last lifecycle call invokes a
\* hook, when nothing stops it before
Calling ==
    {i \in 1..Len(OrderOf(op)) : op = "InitGenesis" => InitPayload(i) # Nil}

\* the positions the last lifecycle call got to: those in front of the first
\* position at which it finds no module to call
Reached ==
    LET stops == Calling \cap Missing(OrderOf(op))
    IN  {i \in Calling : \A j \in stops : i < j}

\* what the hook of the call record c returned
HookTags(c) ==
    IF c.method = "BeginBlock" THEN ModBeginBlock(c.on[2], c.arg[1])
    ELSE ModEndBlock(c.on[2], c.arg[1]).tags
HookUpdates(c) ==
    IF c.method = "EndBlock" THEN ModEndBlock(c.on[2], c.arg[1]).updates
    ELSE ModInitGenesis(c.on[2], c.arg[1], c.arg[2])

\* what the last lifecycle call returned is made of what the hooks it called
\* returned, and of nothing else
OnlyInvokedContribute ==
    LET tags == Flatten([i \in 1..Len(calls) |-> HookTags(calls[i])])
        updates == [i \in 1..Len(calls) |-> HookUpdates(calls[i])]
    IN  /\ op = "BeginBlock" => ret.Tags = tags
        /\ op = "EndBlock" => /\ ret.Tags = tags
                              /\ LastNonEmptyWins(ret.ValidatorUpdates, updates)
        /\ op = "InitGenesis" => LastNonEmptyWins(ret.Validators, updates)
        /\ op = "ExportGenesis" =>
              DOMAIN ret.genesisData = {Name(calls[i].on[2]) : i \in 1..Len(calls)}

\* a module of the map whose name is not in the ordering of the last
\* lifecycle call was not invoked by it and contributed nothing to its result
OmittedNeverInvoked ==
    /\ \A n \in DOMAIN mm.Modules \ Range(OrderOf(op)) : ~Invoked(mm.Modules[n])
    /\ \A i \in 1..Len(calls) :
          /\ calls[i].method = op
          /\ Name(calls[i].on[2]) \in Range(OrderOf(op))
          /\ calls[i].on = <<"module", mm.Modules[Name(calls[i].on[2])]>>
    /\ status = "ok" => OnlyInvokedContribute

\* C11 as stated: a module of the map whose name is not in the ordering of a
\* lifecycle call is not invoked by that call and contributes nothing to its
\* result, and a module whose name is in the ordering is invoked.
C11_OmittedNeverListedAlways ==
    op \in LifecycleOps =>
        /\ OmittedNeverInvoked
        /\ \A n \in DOMAIN mm.Modules \cap Range(OrderOf(op)) : Invoked(mm.Modules[n])

\* C11 amended: a module of the map whose name is not in the ordering of a
\* lifecycle call is not invoked by that call and contributes nothing to its
\* result; a module whose name is in the ordering is invoked exactly when the
\* call gets to a position of its name, and for InitGenesis to one whose
\* genesis payload is not nil.
C11_OmittedNeverListedWhenReached ==
    op \in LifecycleOps =>
        /\ OmittedNeverInvoked
        /\ \A n \in DOMAIN mm.Modules \cap Range(OrderOf(op)) :
              Invoked(mm.Modules[n]) <=> \E i \in Reached : OrderOf(op)[i] = n

C11_Witness ==
    /\ op = "BeginBlock"
    /\ status = "ok"
    /\ L = <<1, 2>>
    /\ args = <<"c2">>
    /\ mm.OrderBeginBlockers = <<"a">>
    /\ mm.OrderEndBlockers = <<"a", "b">>
    /\ CalledModules = <<1>>
    /\ ret.Tags = <<Tag("k", "1"), Tag("j", "2")>>

\* C12 as stated: InitGenesis, called with the map ExportGenesis returned
\* and under an OrderInitGenesis of the same names, invokes every module that
\* was exported, each with the payload it exported.
C12_ExportFeedsInitGenesis ==
    [][(/\ op = "ExportGenesis"
        /\ status = "ok"
        /\ op' = "InitGenesis"
        /\ args'[2] = ret.genesisData
        /\ Range(mm.OrderInitGenesis) = Range(mm.OrderExportGenesis))
       => /\ status' = "ok"
          /\ \A n \in DOMAIN ret.genesisData :
                \E i \in 1..Len(calls') :
                    calls'[i] = ModuleCall(mm.Modules[n], "InitGenesis",
                                           <<args'[1], ret.genesisData[n]>>)]_vars

\* C12 amended: InitGenesis, called with the map ExportGenesis returned and
\* under an OrderInitGenesis of the same names, returns, invokes every module
\* that exported a payload other than nil, each with the payload it exported,
\* and invokes no module that exported nil.
C12_ExportFeedsInitGenesisNonNil ==
    [][(/\ op = "ExportGenesis"
        /\ status = "ok"
        /\ op' = "InitGenesis"
        /\ args'[2] = ret.genesisData
        /\ Range(mm.OrderInitGenesis) = Range(mm.OrderExportGenesis))
       => /\ status' = "ok"
          /\ \A n \in DOMAIN ret.genesisData :
                IF ret.genesisData[n] = Nil
                THEN \A i \in 1..Len(calls') : calls'[i].on # <<"module", mm.Modules[n]>>
                ELSE \E i \in 1..Len(calls') :
                        calls'[i] = ModuleCall(mm.Modules[n], "InitGenesis",
                                               <<args'[1], ret.genesisData[n]>>)
          /\ \A i \in 1..Len(calls') :
                /\ calls'[i].method = "InitGenesis"
                /\ calls'[i].arg[2] = ret.genesisData[Name(calls'[i].on[2])]]_vars

C12_Witness ==
    /\ op = "InitGenesis"
    /\ status = "ok"
    /\ L = <<1, 2>>
    /\ mm.OrderExportGenesis = <<"a", "b">>
    /\ mm.OrderInitGenesis = <<"b", "a">>
    /\ args[2] = [n \in {"a", "b"} |-> IF n = "a" THEN "q" ELSE Nil]
    /\ calls = <<ModuleCall(1, "InitGenesis", <<"c0", "q">>)>>

\* C13: DefaultGenesis returns a map whose keys are the names of the
\* registered modules, each mapped to the default payload of the last module
\* registered under that name.
C13_DefaultGenesisLastWins ==
    op = "DefaultGenesis" =>
        /\ status = "ok"
        /\ DOMAIN ret.genesis = {Name(mbm[i]) : i \in 1..Len(mbm)}
        /\ \A n \in DOMAIN ret.genesis :
              ret.genesis[n] =
                  ModDefaultGenesis(mbm[Max({i \in 1..Len(mbm) : Name(mbm[i]) = n})])

C13_Witness ==
    /\ op = "DefaultGenesis"
    /\ L = <<1, 2, 3>>
    /\ ret.genesis = [n \in {"a", "b"} |-> "q"]

\* C15 as stated: InitGenesis is the first lifecycle call and is not called
\* again, BeginBlock, EndBlock and ExportGenesis come after it, an EndBlock
\* comes right after the BeginBlock of its block and a BeginBlock right after
\* InitGenesis or the EndBlock of the block before.
C15_LifecycleSequence ==
    [][/\ op' = "InitGenesis" => op = "NewModuleManager"
       /\ op' \in {"BeginBlock", "EndBlock", "ExportGenesis"} => op # "NewModuleManager"
       /\ op' = "EndBlock" => op = "BeginBlock"
       /\ op' = "BeginBlock" => op \in {"InitGenesis", "EndBlock"}]_vars

\* C15 amended: the manager keeps no lifecycle state and guards none of the
\* four lifecycle calls: whatever calls came before, InitGenesis (again),
\* BeginBlock, EndBlock and ExportGenesis are each accepted.
C15_NoLifecycleGuard ==
    /\ ENABLED InitGenesis
    /\ ENABLED ExportGenesis
    /\ ENABLED BeginBlock
    /\ ENABLED EndBlock

C15_Witness ==
    /\ op = "InitGenesis"
    /\ status = "ok"
    /\ L = <<1, 2>>
    /\ args[2] = [n \in {"a"} |-> "p"]
    /\ CalledModules = <<1>>
    /\ ENABLED (InitGenesis /\ args'[2] = [n \in {"b"} |-> "p"] /\ calls' = <<ModuleCall(2, "InitGenesis", <<"c0", "p">>)>>)
    /\ ENABLED (EndBlock /\ calls' # <<>>)

\* C16: ValidateGenesis hands each module it validates the genesis entry
\* stored under that module's own name, nil when there is none; when no
\* validator reports an error it calls the validator of every registered
\* module once, in registration order, and returns no error.
C16_ValidateGenesisOwnEntry ==
    op = "ValidateGenesis" =>
        /\ Len(calls) <= Len(mbm)
        /\ \A j \in 1..Len(calls) :
              calls[j] = ModuleCall(mbm[j], "ValidateGenesis",
                                    <<MapGet(args[1], Name(mbm[j]), Nil)>>)
        /\ (\A i \in 1..Len(mbm) : ValidateAnswer(i) = Nil) =>
              /\ Len(calls) = Len(mbm)
              /\ status = "ok"
              /\ ret.err = Nil

C16_Witness ==
    /\ op = "ValidateGenesis"
    /\ L = <<1, 2>>
    /\ args[1] = [n \in {"a"} |-> "p"]
    /\ ret.err = Nil
    /\ calls = <<ModuleCall(1, "ValidateGenesis", <<"p">>),
                 ModuleCall(2, "ValidateGenesis", <<Nil>>)>>

\* the AddRoute calls RegisterRoutes has to make, in no order
RoutesOf(m) ==
    {RouterCall("router", Route(m.Modules[n]), NewHandler(m.Modules[n])) :
        n \in {k \in DOMAIN m.Modules : Route(m.Modules[k]) # ""}}
    \cup
    {RouterCall("queryRouter", QuerierRoute(m.Modules[n]), NewQuerierHandler(m.Modules[n])) :
        n \in {k \in DOMAIN m.Modules : QuerierRoute(m.Modules[k]) # ""}}

\* C17: whatever order the module map is iterated in, RegisterRoutes makes
\* the same set of AddRoute calls on the two routers, and RegisterInvariants
\* calls the same set of modules, each call made once.
C17_RegistrationOrderIndependent ==
    /\ op = "RegisterRoutes" =>
          /\ args[1] \in KeyOrders(mm.Modules)
          /\ Range(calls) = RoutesOf(mm)
          /\ Len(calls) = Cardinality(RoutesOf(mm))
    /\ op = "RegisterInvariants" =>
          /\ args[1] \in KeyOrders(mm.Modules)
          /\ Range(calls) = {ModuleCall(mm.Modules[n], "RegisterInvariants", <<"invarRouter">>) :
                                n \in DOMAIN mm.Modules}
          /\ Len(calls) = Cardinality(DOMAIN mm.Modules)

C17_Witness ==
    /\ op = "RegisterRoutes"
    /\ L = <<3, 2>>
    /\ args = <<(<<"b", "a">>)>>
    /\ calls = <<RouterCall("queryRouter", "qb", NewQuerierHandler(2)),
                 RouterCall("router", "rc", NewHandler(3)),
                 RouterCall("queryRouter", "qc", NewQuerierHandler(3))>>

\* C18: NewModuleManager leaves a module map with one entry for each name of
\* the list, holding the module registered last under that name, and four
\* orderings all of whose names are keys of the map; a lifecycle call made
\* under these orderings does not panic.
C18_DefaultOrderingsRegistered ==
    /\ op = "NewModuleManager" =>
          \A f \in OrderFields : Range(mm[f]) \subseteq DOMAIN mm.Modules
    /\ DOMAIN mm.Modules = {Name(L[i]) : i \in 1..Len(L)}
    /\ \A n \in DOMAIN mm.Modules :
          mm.Modules[n] = L[Max({i \in 1..Len(L) : Name(L[i]) = n})]
    /\ (op \in LifecycleOps /\ OrderOf(op) = ModulesStr(L)) => status = "ok"

C18_Witness ==
    /\ op = "BeginBlock"
    /\ status = "ok"
    /\ L = <<1, 2, 3>>
    /\ mm.Modules = [n \in {"a", "b"} |-> IF n = "a" THEN 3 ELSE 2]
    /\ mm.OrderBeginBlockers = <<"a", "b", "a">>
    /\ CalledModules = <<3, 2, 3>>

SetterOps ==
    {"SetOrderInitGenesis", "SetOrderExportGenesis",
     "SetOrderBeginBlockers", "SetOrderEndBlockers"}

\* C19: a lifecycle call or a registration call leaves the module map and
\* the four orderings as they were; a call that changes any of them is one
\* of the four setters.
C19_CallsLeaveManager ==
    [][/\ op' \in LifecycleOps \cup {"RegisterRoutes", "RegisterInvariants"} => mm' = mm
       /\ mm' # mm => op' \in SetterOps
       /\ mm'.Modules = mm.Modules]_vars

C19_Witness ==
    /\ op = "InitGenesis"
    /\ status = "ok"
    /\ L = <<1, 2>>
    /\ mm = [NewModuleManager(L) EXCEPT !.OrderInitGenesis = <<"b">>]
    /\ args[2] = [n \in {"a", "b"} |-> "p"]
    /\ CalledModules = <<2>>

\* C20: a BeginBlock, EndBlock or ExportGenesis call under an ordering of
\* registered names returns, and the hook calls it made are those of its
\* ordering, position by position: the hook of the module of the i-th name
\* is the i-th call, a name listed k times is called k times, and nothing
\* else is called.
C20_HooksFollowOrdering ==
    (op \in {"BeginBlock", "EndBlock", "ExportGenesis"} /\ Missing(OrderOf(op)) = {}) =>
        /\ status = "ok"
        /\ calls = [i \in 1..Len(OrderOf(op)) |->
                       ModuleCall(mm.Modules[OrderOf(op)[i]], op, args)]

C20_Witness ==
    /\ op = "ExportGenesis"
    /\ status = "ok"
    /\ L = <<1, 2>>
    /\ args = <<"c1">>
    /\ mm.OrderExportGenesis = <<"a", "a">>
    /\ CalledModules = <<1, 1>>
    /\ ret.genesisData = [n \in {"a"} |-> "p"]
====
